---- MODULE Spec2Model ----
(***************************************************************************)
(* Main pass of the phase distribution graph simulation:                  *)
(* execute_graph of python/MRzeroCore/simulation/main_pass.py.             *)
(*                                                                         *)
(* The graph, the sequence, the scanner data and the keyword arguments     *)
(* are the inputs; the state is the two node fields the pass writes (mag,  *)
(* kt_vec), the lists it builds (signal, mag_adc, rep_sig) and the         *)
(* position of the two nested loops.  Tensors are kept as the expressions  *)
(* the code builds them from (which factors multiply which magnetisation), *)
(* k-space vectors and times as integers.                                  *)
(***************************************************************************)
EXTENDS Integers, Sequences, FiniteSets, TLC

\* len(seq): the graph holds NumReps + 1 repetitions, graph[0] is the seed
NumReps == 2
\* distributions per repetition of the graph (graph[0] has one)
MaxNodes == 2
\* events per repetition of the sequence
MaxEvents == 2
\* shim channels of a pulse / transmit channels of data.B1
MaxChannels == 2

VARIABLES graph, seq, data,
          min_emitted_signal, min_latent_signal, return_mag_adc,
          clear_state_mag, intitial_mag,
          pc, i, processed, rep_sig, signal, mag_adc, result

vars == <<graph, seq, data, min_emitted_signal, min_latent_signal,
          return_mag_adc, clear_state_mag, intitial_mag,
          pc, i, processed, rep_sig, signal, mag_adc, result>>

args == <<seq, data, min_emitted_signal, min_latent_signal,
          return_mag_adc, clear_state_mag, intitial_mag>>

-----------------------------------------------------------------------------
(* Values *)

\* state.dist_type
DistTypes == {"z0", "z", "+", "-"}

\* the edge labels calc_mag knows
Transforms == {"zz", "++", "z+", "+z", "-z", "-+"}

\* an edge label calc_mag does not know
UnknownTransform == "??"

\* state.mag = None
None == [op |-> "None"]

\* torch.zeros(4)
Zeros4 == <<0, 0, 0, 0>>

\* kt_vec as the pre-pass left it (an estimate this pass never reads
\* before writing its own)
PrePassKt == [by |-> "pre_pass", v |-> Zeros4]

\* a kt_vec written by this pass
MainPassKt(v) == [by |-> "main_pass", v |-> v]

\* the function f on 1..n as an explicit tuple
RECURSIVE TupleUpTo(_, _)
TupleUpTo(f, n) == IF n = 0 THEN <<>> ELSE Append(TupleUpTo(f, n - 1), f[n])

Tuple(f) == TupleUpTo(f, Cardinality(DOMAIN f))

\* the function f on 0..n as an explicit function
RECURSIVE FromZeroUpTo(_, _)
FromZeroUpTo(f, n) ==
    IF n = 0 THEN (0 :> f[0]) ELSE FromZeroUpTo(f, n - 1) @@ (n :> f[n])

VecAdd(a, b) == Tuple([n \in DOMAIN a |-> a[n] + b[n]])

VecNeg(a) == Tuple([n \in DOMAIN a |-> 0 - a[n]])

RECURSIVE SumSeq(_)
SumSeq(s) == IF s = <<>> THEN 0 ELSE Head(s) + SumSeq(Tail(s))

\* python truthiness of return_mag_adc (False, True or an int)
Truthy(x) == x.val # 0

-----------------------------------------------------------------------------
(* Inputs: the default input and every input one or two fields away *)

Edge(label, r, j) == [label |-> label, rep |-> r, idx |-> j]

Dist(dist_type, ancestors) ==
    [dist_type |-> dist_type, latent_signal |-> 1, emitted_signal |-> 1,
     ancestors |-> ancestors, mag |-> None, kt_vec |-> PrePassKt]

DefaultType(j) == IF j = 1 THEN "z0" ELSE IF j % 2 = 0 THEN "+" ELSE "z"

DefaultLabel(from, to) ==
    IF to = "+" THEN (IF from = "+" THEN "++" ELSE "z+")
    ELSE (IF from = "+" THEN "+z" ELSE "zz")

\* every distribution descends from the z0 of the repetition before and,
\* past the first repetition, from the distribution of its own pathway
DefaultDist(r, j) ==
    Dist(DefaultType(j),
         <<Edge(DefaultLabel("z0", DefaultType(j)), r - 1, 1)>> \o
         (IF r >= 2 /\ j >= 2
            THEN <<Edge(DefaultLabel(DefaultType(j), DefaultType(j)), r - 1, j)>>
            ELSE <<>>))

DefaultGraph ==
    FromZeroUpTo([r \in 0..NumReps |->
                    IF r = 0 THEN <<Dist("z0", <<>>)>>
                    ELSE Tuple([j \in 1..MaxNodes |-> DefaultDist(r, j)])],
                 NumReps)

\* one repetition of the sequence: rows of pulse.shim_array, adc_usage,
\* gradm (already scaled by grad_scale) and event_time per event
DefaultRep ==
    [shim_rows |-> 1,
     adc_usage |-> Tuple([e \in 1..MaxEvents |-> 1]),
     gradm |-> Tuple([e \in 1..MaxEvents |-> <<1, 0, 0>>]),
     event_time |-> Tuple([e \in 1..MaxEvents |-> 1])]

DefaultInput ==
    [graph |-> DefaultGraph,
     seq |-> Tuple([r \in 1..NumReps |-> DefaultRep]),
     data |-> [B1_rows |-> 1, motion |-> FALSE],
     min_emitted_signal |-> 1,
     min_latent_signal |-> 1,
     return_mag_adc |-> [int |-> FALSE, val |-> 0],
     clear_state_mag |-> TRUE,
     intitial_mag |-> FALSE]

Dev(f, r, j, e, v, s) == [f |-> f, r |-> r, j |-> j, e |-> e, v |-> v, s |-> s]

NoDev == Dev("none", 0, 0, 0, 0, "")

RECURSIVE Pow2(_)
Pow2(n) == IF n = 0 THEN 1 ELSE 2 * Pow2(n - 1)

\* adc_usage of the mask numbered m: event e is used iff bit e - 1 is set
MaskOf(m) == Tuple([e \in 1..MaxEvents |-> (m \div Pow2(e - 1)) % 2])

Deviations ==
    {Dev("dist_type", r, j, 0, 0, t) :
        r \in 1..NumReps, j \in 1..MaxNodes, t \in DistTypes}
    \cup {Dev(f, r, j, 0, 0, "") :
        f \in {"latent_signal", "emitted_signal"}, r \in 1..NumReps, j \in 1..MaxNodes}
    \cup {Dev("label", r, j, e, 0, l) :
        r \in 1..NumReps, j \in 1..MaxNodes, e \in 1..2,
        l \in Transforms \cup {UnknownTransform}}
    \cup {Dev("drop", r, j, e, 0, "") :
        r \in 1..NumReps, j \in 1..MaxNodes, e \in 1..2}
    \cup {Dev("adc_usage", r, 0, 0, m, "") :
        r \in 1..NumReps, m \in 0..(Pow2(MaxEvents) - 1)}
    \cup {Dev("shim_array", r, 0, 0, n, "") : r \in 1..NumReps, n \in 1..MaxChannels}
    \cup {Dev("B1", 0, 0, 0, n, "") : n \in 1..MaxChannels}
    \cup {Dev(f, 0, 0, 0, v, "") :
        f \in {"min_emitted_signal", "min_latent_signal"}, v \in {0, 2}}
    \cup {Dev("return_mag_adc", 0, 0, 0, 1, "bool")}
    \cup {Dev("return_mag_adc", 0, 0, 0, r, "int") : r \in 0..(NumReps - 1)}
    \cup {Dev(f, 0, 0, 0, 0, "") : f \in {"clear_state_mag", "intitial_mag", "motion"}}

RemoveAt(s, e) == SubSeq(s, 1, e - 1) \o SubSeq(s, e + 1, Len(s))

Apply(d, in) ==
    CASE d.f = "dist_type" ->
           [in EXCEPT !.graph[d.r][d.j].dist_type = d.s]
      [] d.f = "latent_signal" ->
           [in EXCEPT !.graph[d.r][d.j].latent_signal = d.v]
      [] d.f = "emitted_signal" ->
           [in EXCEPT !.graph[d.r][d.j].emitted_signal = d.v]
      [] d.f = "label" /\ d.e <= Len(in.graph[d.r][d.j].ancestors) ->
           [in EXCEPT !.graph[d.r][d.j].ancestors[d.e].label = d.s]
      [] d.f = "drop" /\ d.e <= Len(in.graph[d.r][d.j].ancestors) ->
           [in EXCEPT !.graph[d.r][d.j].ancestors = RemoveAt(@, d.e)]
      [] d.f = "adc_usage" -> [in EXCEPT !.seq[d.r].adc_usage = MaskOf(d.v)]
      [] d.f = "shim_array" -> [in EXCEPT !.seq[d.r].shim_rows = d.v]
      [] d.f = "B1" -> [in EXCEPT !.data.B1_rows = d.v]
      [] d.f = "motion" -> [in EXCEPT !.data.motion = TRUE]
      [] d.f = "min_emitted_signal" -> [in EXCEPT !.min_emitted_signal = d.v]
      [] d.f = "min_latent_signal" -> [in EXCEPT !.min_latent_signal = d.v]
      [] d.f = "return_mag_adc" ->
           [in EXCEPT !.return_mag_adc = [int |-> d.s = "int", val |-> d.v]]
      [] d.f = "clear_state_mag" -> [in EXCEPT !.clear_state_mag = FALSE]
      [] d.f = "intitial_mag" -> [in EXCEPT !.intitial_mag = TRUE]
      [] OTHER -> in

Inputs == {Apply(d2, Apply(d1, DefaultInput)) :
              d1 \in Deviations \cup {NoDev}, d2 \in Deviations \cup {NoDev}}

-----------------------------------------------------------------------------
(* The state before execute_graph runs *)

Init ==
    \E in \in Inputs :
        /\ graph = in.graph
        /\ seq = in.seq
        /\ data = in.data
        /\ min_emitted_signal = in.min_emitted_signal
        /\ min_latent_signal = in.min_latent_signal
        /\ return_mag_adc = in.return_mag_adc
        /\ clear_state_mag = in.clear_state_mag
        /\ intitial_mag = in.intitial_mag
        /\ pc = "start"
        /\ i = 0
        /\ processed = {}
        /\ rep_sig = <<>>
        /\ signal = <<>>
        /\ mag_adc = <<>>
        /\ result = [kind |-> "running", signal |-> <<>>, mag_adc |-> <<>>]

\* graph[0][0].mag, graph[0][0].kt_vec: the fully relaxed z0, or the
\* injected steady state
Seed ==
    /\ pc = "start"
    /\ graph' = [graph EXCEPT
                   ![0][1].mag = IF intitial_mag THEN [op |-> "intitial_mag"]
                                 ELSE [op |-> "ones"],
                   ![0][1].kt_vec = MainPassKt(Zeros4)]
    /\ pc' = "loop"
    /\ UNCHANGED <<args, i, processed, rep_sig, signal, mag_adc, result>>

-----------------------------------------------------------------------------
(* One repetition: pulse, trajectory *)

\* the repetitions the loop visits: zip(graph[1:], seq)
LoopLength ==
    IF Len(seq) < Cardinality(DOMAIN graph) - 1 THEN Len(seq)
    ELSE Cardinality(DOMAIN graph) - 1

\* the channel check with the assert left out
ChannelsAccepted_NoAssert(rep, d) == TRUE

\* "1Tx or pTx?": one shim row takes data.B1.sum(0) unchecked, any other
\* number of rows must equal the rows of data.B1 (the assert)
ChannelsAccepted(rep, d) == rep.shim_rows = 1 \/ rep.shim_rows = d.B1_rows

\* the combined B1 the six coefficients of a repetition are built from
B1(rep) == IF rep.shim_rows = 1 THEN "B1.sum(0)" ELSE "(B1 * shim).sum(0)"

\* the mask not applied: every event of the repetition
AdcEvents_NoMask(rep) == Tuple([e \in 1..Len(rep.adc_usage) |-> e])

\* adc = rep.adc_usage > 0, as the events a boolean mask index keeps, in order
RECURSIVE AdcEventsUpTo(_, _)
AdcEventsUpTo(rep, e) ==
    IF e = 0 THEN <<>>
    ELSE AdcEventsUpTo(rep, e - 1) \o (IF rep.adc_usage[e] > 0 THEN <<e>> ELSE <<>>)

AdcEvents(rep) == AdcEventsUpTo(rep, Len(rep.adc_usage))

\* torch.cumsum(torch.cat([gradm * grad_scale, event_time]), 0): events x 4
RECURSIVE TrajectoryAt(_, _)
TrajectoryAt(rep, e) ==
    IF e = 0 THEN Zeros4
    ELSE VecAdd(TrajectoryAt(rep, e - 1), rep.gradm[e] \o <<rep.event_time[e]>>)

trajectory(rep) == Tuple([e \in 1..Len(rep.event_time) |-> TrajectoryAt(rep, e)])

total_time(rep) == SumSeq(rep.event_time)

\* k1**2 + k1 * k2 + k2**2 summed over the three axes
KSum(k1, k2) ==
    SumSeq(Tuple([n \in 1..3 |-> k1[n] * k1[n] + k1[n] * k2[n] + k2[n] * k2[n]]))

\* torch.cumsum(b, 0) up to event e, in units of 1/3 * (2 pi)^2, for a
\* distribution that starts the repetition at kt
RECURSIVE CumB(_, _, _)
CumB(rep, kt, e) ==
    IF e = 0 THEN 0
    ELSE CumB(rep, kt, e - 1)
         + rep.event_time[e]
           * KSum(VecAdd(kt, TrajectoryAt(rep, e - 1)), VecAdd(kt, TrajectoryAt(rep, e)))

-----------------------------------------------------------------------------
(* One distribution of the repetition *)

\* list(filter(lambda edge: edge[1].mag is not None, dist.ancestors))
RECURSIVE Simulated_Edges(_, _)
Simulated_Edges(g, edges) ==
    IF edges = <<>> THEN <<>>
    ELSE (IF g[Head(edges).rep][Head(edges).idx].mag # None
            THEN <<Head(edges)>> ELSE <<>>)
         \o Simulated_Edges(g, Tail(edges))

Ancestors(g, dist) == Simulated_Edges(g, dist.ancestors)

\* the loop over dists without its first "continue"
Skipped_NoLatent(dist, ancestors, min_latent) ==
    dist.dist_type # "z0" /\ Len(ancestors) = 0

\* the two "continue" of the loop over dists
Skipped(dist, ancestors, min_latent) ==
    \/ dist.dist_type # "z0" /\ dist.latent_signal < min_latent
    \/ dist.dist_type # "z0" /\ Len(ancestors) = 0

Coef(name, r) == [name |-> name, rep |-> r, B1 |-> B1(seq[r + 1])]

Times(coef, conj, m) == [op |-> "mul", coef |-> coef, conj |-> conj, of |-> m]

ValueError == [op |-> "raise ValueError(Unknown transform)"]

\* calc_mag with the final else passing the magnetisation on unchanged
calc_mag_NoRaise(ancestor, m, r) ==
    IF ancestor.label = "zz" THEN Times(Coef("z_to_z", r), FALSE, m)
    ELSE IF ancestor.label = "++" THEN Times(Coef("p_to_p", r), FALSE, m)
    ELSE IF ancestor.label = "z+" THEN Times(Coef("z_to_p", r), FALSE, m)
    ELSE IF ancestor.label = "+z" THEN Times(Coef("p_to_z", r), FALSE, m)
    ELSE IF ancestor.label = "-z" THEN Times(Coef("m_to_z", r), TRUE, m)
    ELSE IF ancestor.label = "-+" THEN Times(Coef("m_to_p", r), TRUE, m)
    ELSE m

\* calc_mag of the repetition r, for the edge ancestor whose parent holds m
calc_mag(ancestor, m, r) ==
    IF ancestor.label = "zz" THEN Times(Coef("z_to_z", r), FALSE, m)
    ELSE IF ancestor.label = "++" THEN Times(Coef("p_to_p", r), FALSE, m)
    ELSE IF ancestor.label = "z+" THEN Times(Coef("z_to_p", r), FALSE, m)
    ELSE IF ancestor.label = "+z" THEN Times(Coef("p_to_z", r), FALSE, m)
    ELSE IF ancestor.label = "-z" THEN Times(Coef("m_to_z", r), TRUE, m)
    ELSE IF ancestor.label = "-+" THEN Times(Coef("m_to_p", r), TRUE, m)
    ELSE ValueError

\* [calc_mag(ancestor) for ancestor in ancestors]
CalcMags(g, ancestors, r) ==
    Tuple([n \in 1..Len(ancestors) |->
             calc_mag(ancestors[n], g[ancestors[n].rep][ancestors[n].idx].mag, r)])

\* the kt_vec a distribution starts the repetition with
PrePulseKt(g, dist, ancestors) ==
    IF dist.dist_type = "z0" THEN Zeros4
    ELSE IF ancestors[1].label \in {"-+", "-z"}
      THEN VecNeg(g[ancestors[1].rep][ancestors[1].idx].kt_vec.v)
    ELSE g[ancestors[1].rep][ancestors[1].idx].kt_vec.v

\* every transverse-plus distribution measured, whatever its emitted_signal
Measured_NoThreshold(dist, min_emitted) == dist.dist_type = "+"

\* the condition under which a distribution is measured
Measured(dist, min_emitted) ==
    dist.dist_type = "+" /\ dist.emitted_signal >= min_emitted

Factor(name, r, b) == [name |-> name, rep |-> r, b |-> b]

Scale(m, by) == [op |-> "scale", of |-> m, by |-> by]

\* the carry-over left out in a repetition without ADC samples
CarryOver_OnlyWithAdc(dist, m, kt, rep, r, motion) ==
    IF AdcEvents(rep) = <<>> THEN [mag |-> m, kt_vec |-> kt]
    ELSE IF dist.dist_type = "+"
      THEN [mag |-> Scale(m, <<Factor("r2", r, 0),
                               Factor("diffusion[-1]", r,
                                      CumB(rep, kt, Len(rep.event_time)))>>
                             \o (IF motion
                                   THEN <<Factor("motion_phase[-1]", r, 0)>>
                                   ELSE <<>>)),
            kt_vec |-> VecAdd(kt, trajectory(rep)[Len(rep.event_time)])]
      ELSE LET decayed ==
                   Scale(m, <<Factor("r1", r, 0),
                              Factor("diffusion", r,
                                     total_time(rep)
                                     * (kt[1] * kt[1] + kt[2] * kt[2] + kt[3] * kt[3]))>>)
           IN  [mag |-> IF dist.dist_type = "z0"
                          THEN [op |-> "+ 1 - r1", of |-> decayed, rep |-> r]
                          ELSE decayed,
                kt_vec |-> kt]

\* "Prepare each state's dist.mag and kt_vec for the next TR"
CarryOver(dist, m, kt, rep, r, motion) ==
    IF dist.dist_type = "+"
      THEN [mag |-> Scale(m, <<Factor("r2", r, 0),
                               Factor("diffusion[-1]", r,
                                      CumB(rep, kt, Len(rep.event_time)))>>
                             \o (IF motion
                                   THEN <<Factor("motion_phase[-1]", r, 0)>>
                                   ELSE <<>>)),
            kt_vec |-> VecAdd(kt, trajectory(rep)[Len(rep.event_time)])]
      ELSE LET decayed ==
                   Scale(m, <<Factor("r1", r, 0),
                              Factor("diffusion", r,
                                     total_time(rep)
                                     * (kt[1] * kt[1] + kt[2] * kt[2] + kt[3] * kt[3]))>>)
           IN  [mag |-> IF dist.dist_type = "z0"
                          THEN [op |-> "+ 1 - r1", of |-> decayed, rep |-> r]
                          ELSE decayed,
                kt_vec |-> kt]

\* mag and kt_vec of the distribution g[r][j] at the end of the loop body,
\* when it is not skipped and calc_mag does not raise: the sum over the
\* simulated ancestors, carried over the repetition rep (the one of index r - 1)
Evolved(g, r, j, rep, motion) ==
    CarryOver(g[r][j],
              [op |-> "sum", args |-> CalcMags(g, Ancestors(g, g[r][j]), r - 1)],
              PrePulseKt(g, g[r][j], Ancestors(g, g[r][j])),
              rep, r - 1, motion)

\* rep_sig += dist_signal: every row takes the contribution of dist j
AddSignal(sig, j) ==
    Tuple([n \in 1..Len(sig) |-> [sig[n] EXCEPT !.from = Append(@, j)]])

\* the clear_state_mag loop emptying the edge lists along with the parents
Release_DropEdges(g, dists) ==
    FromZeroUpTo(
      [r \in DOMAIN g |->
         Tuple([j \in DOMAIN g[r] |->
                  IF \E n \in DOMAIN dists : \E e \in DOMAIN dists[n].ancestors :
                         dists[n].ancestors[e].rep = r /\ dists[n].ancestors[e].idx = j
                    THEN [g[r][j] EXCEPT !.mag = None, !.ancestors = <<>>]
                    ELSE g[r][j]])],
      Cardinality(DOMAIN g) - 1)

\* the clear_state_mag loop: ancestor[1].mag = None for every edge of dists
Release(g, dists) ==
    FromZeroUpTo(
      [r \in DOMAIN g |->
         Tuple([j \in DOMAIN g[r] |->
                  IF \E n \in DOMAIN dists : \E e \in DOMAIN dists[n].ancestors :
                         dists[n].ancestors[e].rep = r /\ dists[n].ancestors[e].idx = j
                    THEN [g[r][j] EXCEPT !.mag = None]
                    ELSE g[r][j]])],
      Cardinality(DOMAIN g) - 1)

\* the parents released as soon as the distribution is written
WriteDist_ReleaseEarly(g, r, j, next) ==
    [Release(g, <<g[r][j]>>) EXCEPT ![r][j].mag = next.mag,
                                    ![r][j].kt_vec = MainPassKt(next.kt_vec)]

\* dist.mag = ..., dist.kt_vec = ... of the distribution graph[r][j]; nothing
\* else is touched before the loop over dists ends
WriteDist(g, r, j, next) ==
    [g EXCEPT ![r][j].mag = next.mag, ![r][j].kt_vec = MainPassKt(next.kt_vec)]

\* torch.cat(signal)
RECURSIVE Cat(_)
Cat(s) == IF s = <<>> THEN <<>> ELSE Head(s) \o Cat(Tail(s))

-----------------------------------------------------------------------------
(* The loop over the repetitions and, inside, over the distributions *)

Raise(what) ==
    /\ pc' = "raised"
    /\ result' = [kind |-> what, signal |-> <<>>, mag_adc |-> <<>>]

\* the head of the loop body, down to mag_adc.append(mag_adc_rep)
BeginRep ==
    /\ pc = "loop"
    /\ i < LoopLength
    /\ LET rep == seq[i + 1] IN
         IF ~ChannelsAccepted(rep, data)
           THEN /\ Raise("AssertionError")
                /\ UNCHANGED <<graph, args, i, processed, rep_sig, signal, mag_adc>>
           ELSE /\ rep_sig' = Tuple([n \in 1..Len(AdcEvents(rep)) |->
                                        [rep |-> i, event |-> AdcEvents(rep)[n],
                                         from |-> <<>>, adc_rot |-> FALSE]])
                /\ mag_adc' = Append(mag_adc, <<>>)
                /\ pc' = "dists"
                /\ UNCHANGED <<graph, args, i, processed, signal, result>>

\* one pass of "for dist in dists" for the distribution graph[i + 1][j]
ProcessDist(j) ==
    LET dist == graph[i + 1][j]
        rep == seq[i + 1]
        ancestors == Ancestors(graph, dist)
        mags == CalcMags(graph, ancestors, i)
        next == Evolved(graph, i + 1, j, rep, data.motion)
    IN
    IF Skipped(dist, ancestors, min_latent_signal)
      THEN /\ processed' = processed \cup {j}
           /\ UNCHANGED <<graph, args, pc, i, rep_sig, signal, mag_adc, result>>
    ELSE IF \E n \in DOMAIN mags : mags[n] = ValueError
      THEN /\ Raise("ValueError")
           /\ UNCHANGED <<graph, args, i, processed, rep_sig, signal, mag_adc>>
    ELSE /\ graph' = WriteDist(graph, i + 1, j, next)
         /\ IF Measured(dist, min_emitted_signal)
              THEN /\ rep_sig' = AddSignal(rep_sig, j)
                   /\ mag_adc' =
                        IF Truthy(return_mag_adc)
                          THEN [mag_adc EXCEPT ![i + 1] =
                                  Append(@, [dist |-> j, events |-> AdcEvents(rep)])]
                          ELSE mag_adc
              ELSE UNCHANGED <<rep_sig, mag_adc>>
         /\ processed' = processed \cup {j}
         /\ UNCHANGED <<args, pc, i, signal, result>>

\* the loop over dists takes them in list order
NextDist ==
    /\ pc = "dists"
    /\ Cardinality(processed) < Len(graph[i + 1])
    /\ ProcessDist(Cardinality(processed) + 1)

\* signal.append(rep_sig * adc_rot[adc]) and the clear_state_mag loop
EndRep ==
    /\ pc = "dists"
    /\ Cardinality(processed) = Len(graph[i + 1])
    /\ signal' = Append(signal, Tuple([n \in 1..Len(rep_sig) |->
                                         [rep_sig[n] EXCEPT !.adc_rot = TRUE]]))
    /\ graph' = IF clear_state_mag THEN Release(graph, graph[i + 1]) ELSE graph
    /\ i' = i + 1
    /\ processed' = {}
    /\ pc' = "loop"
    /\ UNCHANGED <<args, rep_sig, mag_adc, result>>

\* the return statement
Return ==
    /\ pc = "loop"
    /\ i = LoopLength
    /\ pc' = "returned"
    /\ result' = IF Truthy(return_mag_adc)
                   THEN [kind |-> "signal, mag_adc", signal |-> Cat(signal),
                         mag_adc |-> mag_adc]
                   ELSE [kind |-> "signal", signal |-> Cat(signal), mag_adc |-> <<>>]
    /\ UNCHANGED <<graph, args, i, processed, rep_sig, signal, mag_adc>>

Next == Seed \/ BeginRep \/ NextDist \/ EndRep \/ Return

Spec == Init /\ [][Next]_vars

\* the loop over dists run in any order (the parallel schedule of the nodes
\* of one repetition)
AnyDist ==
    /\ pc = "dists"
    /\ \E j \in (1..Len(graph[i + 1])) \ processed : ProcessDist(j)

NextAnyOrder == Seed \/ BeginRep \/ AnyDist \/ EndRep \/ Return

SpecAnyOrder == Init /\ [][NextAnyOrder]_vars

-----------------------------------------------------------------------------
(* Properties *)

\* the distribution graph[r][j] was evolved (not skipped) by this run
Simulated(r, j) == graph[r][j].kt_vec.by = "main_pass"

\* the loop over dists has passed the distribution graph[r][j]
Passed(r, j) == r <= i \/ (r = i + 1 /\ j \in processed)

NoParentSimulated(r, j) ==
    \A e \in DOMAIN graph[r][j].ancestors :
        ~Simulated(graph[r][j].ancestors[e].rep, graph[r][j].ancestors[e].idx)

Untouched(r, j) == graph[r][j].mag = None /\ graph[r][j].kt_vec = PrePassKt

\* C1 as stated: after the run returns, every node of any kind below the
\* latent threshold, and every node none of whose ancestors was simulated,
\* holds no magnetisation and its k_tau was not written.
C1_PruningAnyKind ==
    pc = "returned" =>
        \A r \in 1..NumReps : \A j \in DOMAIN graph[r] :
            (graph[r][j].latent_signal < min_latent_signal \/ NoParentSimulated(r, j))
                => Untouched(r, j)

\* C1 amended: at every point of the run, hence after it returns, every
\* node other than an equilibrium (z0) node that is below the latent
\* threshold, or none of whose ancestors was simulated, holds no
\* magnetisation and its k_tau was not written.
C1_Pruning ==
    \A r \in 1..NumReps : \A j \in DOMAIN graph[r] :
        (/\ graph[r][j].dist_type # "z0"
         /\ \/ graph[r][j].latent_signal < min_latent_signal
            \/ NoParentSimulated(r, j))
            => Untouched(r, j)

C1_Witness ==
    /\ pc = "returned"
    /\ \E r \in 1..NumReps : \E j \in DOMAIN graph[r] :
          /\ graph[r][j].dist_type # "z0"
          /\ graph[r][j].latent_signal < min_latent_signal
          /\ Untouched(r, j)
    /\ \E r \in 1..NumReps : \E j \in DOMAIN graph[r] :
          /\ graph[r][j].dist_type # "z0"
          /\ graph[r][j].latent_signal >= min_latent_signal
          /\ graph[r][j].ancestors # <<>>
          /\ NoParentSimulated(r, j)
          /\ Untouched(r, j)

\* C2: the returned signal has as many rows as the adc_usage masks of all
\* repetitions have entries > 0, one row per such entry, in repetition-major,
\* then event order.
C2_SignalLength ==
    pc = "returned" =>
        /\ Len(result.signal) =
             SumSeq(Tuple([r \in 1..Len(seq) |->
                             Cardinality({e \in DOMAIN seq[r].adc_usage :
                                             seq[r].adc_usage[e] > 0})]))
        /\ \A n \in 1..Len(result.signal) :
             seq[result.signal[n].rep + 1].adc_usage[result.signal[n].event] > 0
        /\ \A m, n \in 1..Len(result.signal) :
             m < n =>
               \/ result.signal[m].rep < result.signal[n].rep
               \/ /\ result.signal[m].rep = result.signal[n].rep
                  /\ result.signal[m].event < result.signal[n].event

C2_Witness ==
    /\ pc = "returned"
    /\ \E r \in 1..Len(seq) : \E e \in DOMAIN seq[r].adc_usage : seq[r].adc_usage[e] = 0
    /\ \E m, n \in 1..Len(result.signal) :
          result.signal[m].rep # result.signal[n].rep

HasUnknownEdge(r, j) ==
    \E e \in DOMAIN graph[r][j].ancestors :
        graph[r][j].ancestors[e].label \notin Transforms

\* the evolver is fed an unknown label: the node is not skipped for its
\* latent_signal and one of its edges with a simulated parent has the label
FedUnknown(r, j) ==
    /\ graph[r][j].dist_type = "z0" \/ graph[r][j].latent_signal >= min_latent_signal
    /\ \E e \in DOMAIN graph[r][j].ancestors :
          /\ graph[r][j].ancestors[e].label \notin Transforms
          /\ Simulated(graph[r][j].ancestors[e].rep, graph[r][j].ancestors[e].idx)

\* C3 as stated: the loop never gets past a node that has an edge with an
\* unknown label, whatever its latent_signal and whether or not the parent
\* holds a magnetisation (the pass has aborted there).
C3_UnknownAlwaysFatal ==
    \A r \in 1..NumReps : \A j \in DOMAIN graph[r] :
        Passed(r, j) => ~HasUnknownEdge(r, j)

\* C3 amended: the loop never gets past a node that is not skipped and has
\* an edge with an unknown label whose parent holds a magnetisation: there
\* the pass aborts with ValueError and returns no signal.  (An unknown label
\* on a skipped node, or on an edge whose parent holds no magnetisation, is
\* not looked at.)
C3_UnknownFedIsFatal ==
    /\ \A r \in 1..NumReps : \A j \in DOMAIN graph[r] :
          Passed(r, j) => ~FedUnknown(r, j)
    /\ pc = "raised" => result.signal = <<>> /\ result.mag_adc = <<>>
    /\ result.kind = "ValueError" => pc = "raised"

C3_Witness ==
    /\ pc = "raised"
    /\ result.kind = "ValueError"
    /\ FedUnknown(i + 1, Cardinality(processed) + 1)
    /\ Untouched(i + 1, Cardinality(processed) + 1)

\* the loop body of repetition r (sequence index) got past the channel check
PastChannelCheck(r) == r <= i \/ (r = i + 1 /\ pc = "dists")

\* C4 as stated: no repetition whose pulse has a number of shim rows other
\* than the number of rows of data.B1 gets past the channel check.
C4_AnyMismatchFatal ==
    \A r \in 1..Len(seq) :
        PastChannelCheck(r) => seq[r].shim_rows = data.B1_rows

\* C4 amended: no repetition whose pulse has more than one shim row, and a
\* number of them other than the number of rows of data.B1, gets past the
\* channel check: the pass aborts there (AssertionError) and returns no
\* signal.  A pulse with a single shim row is combined with the sum of all
\* rows of data.B1, however many there are.
C4_MismatchFatal ==
    /\ \A r \in 1..Len(seq) :
          PastChannelCheck(r) =>
              (seq[r].shim_rows = 1 \/ seq[r].shim_rows = data.B1_rows)
    /\ result.kind = "AssertionError" =>
          pc = "raised" /\ result.signal = <<>> /\ result.mag_adc = <<>>

C4_Witness ==
    /\ pc = "raised"
    /\ result.kind = "AssertionError"
    /\ seq[i + 1].shim_rows > 1
    /\ seq[i + 1].shim_rows # data.B1_rows

\* the fields of the graph this pass does not own
Static(g) ==
    [r \in DOMAIN g |->
       [j \in DOMAIN g[r] |->
          [dist_type |-> g[r][j].dist_type,
           latent_signal |-> g[r][j].latent_signal,
           emitted_signal |-> g[r][j].emitted_signal,
           ancestors |-> g[r][j].ancestors]]]

\* a step of the loop over dists that skips its distribution
SkipStep ==
    /\ pc = "dists"
    /\ \E j \in processed' \ processed :
          Skipped(graph[i + 1][j], Ancestors(graph, graph[i + 1][j]),
                  min_latent_signal)

\* C5: no step of the run, returning or aborting, changes the kind,
\* latent_signal, emitted_signal or ancestors of a node, nor the number or
\* order of the nodes of a repetition; a step that skips a node writes no
\* mag and no kt_vec.
C5_Frame ==
    [][/\ Static(graph') = Static(graph)
       /\ SkipStep => graph' = graph]_vars

C5_Witness ==
    /\ pc = "returned"
    /\ clear_state_mag
    /\ \E r \in 1..NumReps : \E j \in DOMAIN graph[r] : graph[r][j].mag # None
    /\ \E r \in 1..NumReps : \E j \in DOMAIN graph[r] : ~Simulated(r, j)
    /\ \E j \in DOMAIN graph[1] : Simulated(1, j) /\ graph[1][j].mag = None

\* the graph as it was when the loop over the dists of graph[i + 1] began:
\* those dists not yet evolved
RepStart(g) ==
    [g EXCEPT ![i + 1] =
        Tuple([j \in DOMAIN g[i + 1] |->
                 [g[i + 1][j] EXCEPT !.mag = None, !.kt_vec = PrePassKt]])]

\* what the loop body leaves of graph[i + 1][j] when it starts from g
Outcome(g, j) ==
    IF Skipped(g[i + 1][j], Ancestors(g, g[i + 1][j]), min_latent_signal)
      THEN g[i + 1][j]
      ELSE [g[i + 1][j] EXCEPT
              !.mag = Evolved(g, i + 1, j, seq[i + 1], data.motion).mag,
              !.kt_vec = MainPassKt(Evolved(g, i + 1, j, seq[i + 1], data.motion).kt_vec)]

\* the dists of graph[i + 1] that add to rep_sig when the loop starts from g
Contributors(g, done) ==
    {j \in done :
        /\ ~Skipped(g[i + 1][j], Ancestors(g, g[i + 1][j]), min_latent_signal)
        /\ Measured(g[i + 1][j], min_emitted_signal)}

Range(s) == {s[n] : n \in DOMAIN s}

C7_ReleaseBound ==
    (clear_state_mag /\ pc = "loop" /\ i >= 1) =>
        /\ \A r \in 0..(i - 1) : \A j \in DOMAIN graph[r] : graph[r][j].mag = None
        /\ Cardinality({rj \in UNION {{<<r, j>> : j \in DOMAIN graph[r]} :
                                        r \in DOMAIN graph} :
                           graph[rj[1]][rj[2]].mag # None})
             <= Len(graph[i])

NoAdc(rep) == \A e \in DOMAIN rep.adc_usage : ~(rep.adc_usage[e] > 0)

\* the repetition rep with every event measured
AllAdc(rep) == [rep EXCEPT !.adc_usage = Tuple([e \in DOMAIN rep.adc_usage |-> 1])]

\* C8: a repetition whose adc_usage has no entry > 0 appends a segment of
\* zero rows to the signal and no diagnostic sample, and in every repetition
\* each dist that is not skipped gets the mag and kt_vec it would get with
\* every event measured: the mask has no part in the carried-over state.
C8_NoAdcRepetition ==
    /\ \A r \in 1..Len(signal) : NoAdc(seq[r]) => signal[r] = <<>>
    /\ \A r \in 1..Len(mag_adc) :
          NoAdc(seq[r]) => \A n \in DOMAIN mag_adc[r] : mag_adc[r][n].events = <<>>
    /\ pc = "dists" =>
          \A j \in processed :
              ~Skipped(graph[i + 1][j], Ancestors(graph, graph[i + 1][j]),
                       min_latent_signal)
              => /\ graph[i + 1][j].mag =
                      Evolved(graph, i + 1, j, AllAdc(seq[i + 1]), data.motion).mag
                 /\ graph[i + 1][j].kt_vec =
                      MainPassKt(Evolved(graph, i + 1, j, AllAdc(seq[i + 1]),
                                         data.motion).kt_vec)

C8_Witness ==
    /\ pc = "loop"
    /\ i >= 1
    /\ NoAdc(seq[i])
    /\ signal[i] = <<>>
    /\ \E j \in DOMAIN graph[i] :
          /\ graph[i][j].dist_type = "+"
          /\ graph[i][j].mag # None
          /\ graph[i][j].mag.op = "scale"
          /\ graph[i][j].kt_vec.v[4] >= total_time(seq[i])

\* the dist graph[r][j] may be measured: transverse-plus, emitted_signal at
\* or above the threshold, and evolved (not skipped) in its repetition
Eligible(r, j) ==
    /\ graph[r][j].dist_type = "+"
    /\ graph[r][j].emitted_signal >= min_emitted_signal
    /\ Simulated(r, j)
    /\ graph[r][j].latent_signal >= min_latent_signal

\* C9: every contribution to the signal of a repetition, and every entry of
\* the diagnostic list, comes from a transverse-plus dist whose
\* emitted_signal is >= min_emitted_signal and that the evolver did not skip.
C9_SignalGating ==
    /\ \A r \in 1..Len(signal) : \A n \in DOMAIN signal[r] :
          \A j \in Range(signal[r][n].from) : Eligible(r, j)
    /\ pc = "dists" =>
          \A n \in DOMAIN rep_sig : \A j \in Range(rep_sig[n].from) : Eligible(i + 1, j)
    /\ \A r \in 1..Len(mag_adc) : \A n \in DOMAIN mag_adc[r] :
          Eligible(r, mag_adc[r][n].dist)

C9_Witness ==
    /\ pc = "returned"
    /\ min_latent_signal > min_emitted_signal
    /\ \E n \in DOMAIN result.signal : result.signal[n].from # <<>>
    /\ \E r \in 1..NumReps : \E j \in DOMAIN graph[r] :
          /\ graph[r][j].dist_type = "+"
          /\ graph[r][j].emitted_signal >= min_emitted_signal
          /\ ~Simulated(r, j)
          /\ \A n \in DOMAIN signal[r] : j \notin Range(signal[r][n].from)

\* C10: with return_mag_adc an integer r, the measured magnetisation of
\* repetition r alone is returned beside the signal (r = 0 included); with
\* True, that of all repetitions; with False, the signal alone.
C10_DiagnosticSelection ==
    pc = "returned" =>
        IF return_mag_adc.int
          THEN /\ result.kind = "signal, mag_adc"
               /\ Len(result.mag_adc) = 1
               /\ result.mag_adc[1] = mag_adc[return_mag_adc.val + 1]
        ELSE IF return_mag_adc.val = 1
          THEN /\ result.kind = "signal, mag_adc"
               /\ result.mag_adc = mag_adc
               /\ Len(result.mag_adc) = LoopLength
        ELSE result.kind = "signal"

\* the first simulated parent of graph[r][j], as an edge
FirstParent(r, j) == Ancestors(graph, graph[r][j])[1]

\* kt_vec of graph[r][j] before the pulse, by kind and first label
PreKt(r, j) ==
    IF graph[r][j].dist_type = "z0" THEN Zeros4
    ELSE IF FirstParent(r, j).label \in {"-z", "-+"}
      THEN VecNeg(graph[FirstParent(r, j).rep][FirstParent(r, j).idx].kt_vec.v)
    ELSE graph[FirstParent(r, j).rep][FirstParent(r, j).idx].kt_vec.v

\* summed gradient moments and total duration of a repetition
TotalTrajectory(rep) ==
    <<SumSeq(Tuple([e \in DOMAIN rep.gradm |-> rep.gradm[e][1]])),
      SumSeq(Tuple([e \in DOMAIN rep.gradm |-> rep.gradm[e][2]])),
      SumSeq(Tuple([e \in DOMAIN rep.gradm |-> rep.gradm[e][3]])),
      SumSeq(rep.event_time)>>

\* the magnetisation m is a sum over parents scaled first by the factor name
DecayedBy(m, name) ==
    /\ m.op = "scale"
    /\ m.of.op = "sum"
    /\ m.by[1].name = name

\* C11: every dist evolved in the current repetition starts from kt_vec
\* zero (z0), the negated kt_vec of its first simulated parent (label -z or
\* -+) or a copy of it; a transverse dist ("+" or "-") ends with that value
\* plus the total trajectory of the repetition and its mag decayed by r2, a
\* "z" dist keeps the value and is decayed by r1, and the z0 dist is decayed by
\* r1 and regrows by 1 - r1.
C11_CarryOverByKind ==
    pc = "dists" =>
        \A j \in processed :
            Simulated(i + 1, j) =>
                IF graph[i + 1][j].dist_type \in {"+", "-"}
                  THEN /\ graph[i + 1][j].kt_vec.v =
                             VecAdd(PreKt(i + 1, j), TotalTrajectory(seq[i + 1]))
                       /\ DecayedBy(graph[i + 1][j].mag, "r2")
                ELSE IF graph[i + 1][j].dist_type = "z"
                  THEN /\ graph[i + 1][j].kt_vec.v = PreKt(i + 1, j)
                       /\ DecayedBy(graph[i + 1][j].mag, "r1")
                ELSE /\ graph[i + 1][j].kt_vec.v = PreKt(i + 1, j)
                     /\ graph[i + 1][j].mag.op = "+ 1 - r1"
                     /\ DecayedBy(graph[i + 1][j].mag.of, "r1")
====
